---- MODULE Spec2Model ----
(***************************************************************************)
(* TrainingCallback of src/train/callbacks.py: the step counter, the three *)
(* cadences (progress line, LoRA checkpoint, sample image) and the calls   *)
(* the callback makes into its collaborators (wandb, pl_module.save_lora,  *)
(* PIL, generate, the filesystem).                                         *)
(*                                                                         *)
(* on_train_batch_end is followed statement by statement: pc is the        *)
(* position of the one Python thread inside the callback, "idle" when the  *)
(* loop driver holds control.  A collaborator call that can take time or   *)
(* raise is a position of its own, so that "in flight" is a state.         *)
(***************************************************************************)
EXTENDS Integers, Sequences, FiniteSets, TLC

VARIABLES
    run_name, training_config,          \* self.run_name, self.training_config
    print_every_n_steps, save_interval, \* self.print_every_n_steps, ...
    sample_interval, save_path,
    wandb_config, use_wandb,            \* self.wandb_config, self.use_wandb
    total_steps,                        \* self.total_steps
    wandb_module, environ,              \* module-level wandb, os.environ
    pc,                                 \* position inside the callback
    frame,                              \* locals of the running call
    exc,                                \* exception delivered to the caller
    inflight,                           \* collaborator calls not yet returned
    dirs, files,                        \* filesystem: directories, image files
    events,                             \* what the callback did, in order
    calls, failures                     \* driver's calls, collaborator failures

vars == <<run_name, training_config, print_every_n_steps, save_interval,
          sample_interval, save_path, wandb_config, use_wandb, total_steps,
          wandb_module, environ, pc, frame, exc, inflight, dirs, files,
          events, calls, failures>>

config == <<run_name, training_config, print_every_n_steps, save_interval,
            sample_interval, save_path, wandb_config, use_wandb>>

outside == <<wandb_module, environ, dirs, files>>

-----------------------------------------------------------------------------
(* Bounds of the model *)

\* calls of on_train_batch_end in a run
MaxSteps == 5
\* collaborator failures in a run
MaxFailures == 1
\* parameters of pl_module
MaxParams == 3
\* calls of on_train_batch_end in a run that is about the gradient statistics
MaxGradientSteps == 2
\* length of the long run of the cadence scenarios
ScenarioSteps == 1000

(* Program constants *)

DefaultPrintEveryNSteps == 10
DefaultSaveInterval == 1000
DefaultSampleInterval == 1000
DefaultSavePath == "./output"
ManualSeed == 42

None == "None"
NoException == "no exception"

\* the failures a collaborator can end with
Errors == {"OSError", "RuntimeError"}

-----------------------------------------------------------------------------
(* Inputs *)

\* trainer.current_epoch and batch_idx: batch indices repeat in every epoch
Epochs == {0, 1}
BatchIdxs == {0, 1}

\* outputs["loss"].item() and trainer.accumulate_grad_batches
Losses == {2}
AccumulateGradBatches == {2}

\* param.grad of one parameter: <<>> is None, <<n>> a gradient of L2 norm n
Grads == {<<>>, <<1>>, <<3>>}

RECURSIVE SeqsUpTo(_, _)
SeqsUpTo(S, n) ==
    IF n = 0 THEN {<<>>}
    ELSE LET shorter == SeqsUpTo(S, n - 1)
         IN  shorter \cup {Append(s, x) : s \in {t \in shorter : Len(t) = n - 1}, x \in S}

\* pl_module.named_parameters(), as the list of the parameters' gradients
ParamLists == SeqsUpTo(Grads, MaxParams)

\* the parameter lists of the runs that are about the cadences: no parameter,
\* and three parameters of which two carry a gradient
CadenceParamLists == { <<>>, << <<1>>, <<>>, <<3>> >> }

\* the training_config mappings a monitor is constructed from
TrainingConfigs ==
    { [unused |-> 0],
      [print_every_n_steps |-> 1, save_interval |-> 2, sample_interval |-> 2],
      [print_every_n_steps |-> 2, save_interval |-> 1, sample_interval |-> 3,
       save_path |-> "runs"],
      [print_every_n_steps |-> 3, save_interval |-> 2, sample_interval |-> 1,
       wandb |-> "project", batch_size |-> 4],
      [save_interval |-> 3, sample_interval |-> 4, save_path |-> "/data/out"] }

RunNames == {"exp"}

WandbApiKey == "WANDB_API_KEY"

\* (wandb imported, os.environ) at construction
Worlds == { <<TRUE, {WandbApiKey}>>, <<TRUE, {}>>, <<FALSE, {WandbApiKey}>> }

-----------------------------------------------------------------------------
(* Pure helpers *)

GetDefaultOnly(d, key, default) == default

\* dict.get(key, default)
Get(d, key, default) == IF key \in DOMAIN d THEN d[key] ELSE default

Max(a, b) == IF a >= b THEN a ELSE b

RECURSIVE Gcd(_, _)
Gcd(a, b) == IF b = 0 THEN a ELSE Gcd(b, a % b)

\* what a division by zero leaves: no value (Python raises ZeroDivisionError)
ZeroDivision == [num |-> 0, den |-> 0]

\* the quotient num / den as a fraction in lowest terms
Div(num, den) ==
    IF den = 0 THEN ZeroDivision
    ELSE LET g == Gcd(num, den)
         IN  [num |-> num \div g, den |-> den \div g]

\* the loop of lines 38-42 without its test of param.grad
RECURSIVE GradientScanCountsAll(_)
GradientScanCountsAll(params) ==
    IF params = <<>>
    THEN [gradient_size |-> 0, max_gradient_size |-> 0, count |-> 0]
    ELSE LET rest == GradientScanCountsAll(SubSeq(params, 1, Len(params) - 1))
             grad == params[Len(params)]
             norm == IF grad # <<>> THEN grad[1] ELSE 0
         IN  [gradient_size     |-> rest.gradient_size + norm,
              max_gradient_size |-> Max(rest.max_gradient_size, norm),
              count             |-> rest.count + 1]

\* the loop over named_parameters(): sum of norms, running max, count
RECURSIVE GradientScan(_)
GradientScan(params) ==
    IF params = <<>>
    THEN [gradient_size |-> 0, max_gradient_size |-> 0, count |-> 0]
    ELSE LET rest == GradientScan(SubSeq(params, 1, Len(params) - 1))
             grad == params[Len(params)]
         IN  IF grad # <<>>
             THEN [gradient_size     |-> rest.gradient_size + grad[1],
                   max_gradient_size |-> Max(rest.max_gradient_size, grad[1]),
                   count             |-> rest.count + 1]
             ELSE rest

GradientSizeUnguarded(scan) == Div(scan.gradient_size, scan.count)

\* if count > 0: gradient_size /= count
GradientSize(scan) ==
    IF scan.count > 0 THEN Div(scan.gradient_size, scan.count)
    ELSE Div(scan.gradient_size, 1)

NextTotalStepsSkips(n) == n + 2

NextTotalStepsPerEpoch(n) == (n % 2) + 1

\* self.total_steps += 1
NextTotalSteps(n) == n + 1

PrintDueBeforeIncrement(steps) == (steps - 1) % print_every_n_steps = 0

PrintDue(steps) == steps % print_every_n_steps = 0
SaveDue(steps) == steps % save_interval = 0
SampleDue(steps) == steps % sample_interval = 0

CkptPathBeforeIncrement(steps) ==
    save_path \o "/" \o run_name \o "/ckpt/" \o ToString(steps - 1)

\* f"{self.save_path}/{self.run_name}/ckpt/{self.total_steps}"
CkptPath(steps) ==
    save_path \o "/" \o run_name \o "/ckpt/" \o ToString(steps)

\* f"{self.save_path}/{self.run_name}/output"
OutputDir == save_path \o "/" \o run_name \o "/output"

\* f"lora_{self.total_steps}"
FileName(steps) == "lora_" \o ToString(steps)

\* os.path.join(save_path, f"{file_name}_{i}.jpg"), save_path without trailing "/"
ImagePath(dir, file_name, i) ==
    dir \o "/" \o file_name \o "_" \o ToString(i) \o ".jpg"

Event(op, arg) == [op |-> op, step |-> total_steps, arg |-> arg]

IdleFrame == [epoch |-> 0, batch_idx |-> 0, loss |-> 0, accumulate |-> 0,
              params |-> <<>>,
              gradient_size |-> Div(0, 1), max_gradient_size |-> 0, count |-> 0,
              report_dict |-> <<>>,
              save_dir |-> None, file_name |-> None, seed |-> 0,
              test_list |-> <<>>, i |-> 0]

-----------------------------------------------------------------------------
(* Construction *)

\* TrainingCallback.__init__(run_name, training_config)
Construct(name, cfg, w) ==
    /\ run_name = name
    /\ training_config = cfg
    /\ print_every_n_steps = Get(cfg, "print_every_n_steps", DefaultPrintEveryNSteps)
    /\ save_interval = Get(cfg, "save_interval", DefaultSaveInterval)
    /\ sample_interval = Get(cfg, "sample_interval", DefaultSampleInterval)
    /\ save_path = Get(cfg, "save_path", DefaultSavePath)
    /\ wandb_config = Get(cfg, "wandb", None)
    /\ wandb_module = w[1]
    /\ environ = w[2]
    /\ use_wandb = (w[1] /\ WandbApiKey \in w[2])
    /\ total_steps = 0

Init ==
    /\ \E name \in RunNames, cfg \in TrainingConfigs, w \in Worlds :
          Construct(name, cfg, w)
    /\ pc = "idle"
    /\ frame = IdleFrame
    /\ exc = NoException
    /\ inflight = {}
    /\ dirs = {}
    /\ files = {}
    /\ events = <<>>
    /\ calls = 0
    /\ failures = 0

-----------------------------------------------------------------------------
(* on_train_batch_end *)

PropagateWrapped(err) ==
    /\ pc' = "idle"
    /\ exc' = "RuntimeError"
    /\ frame' = IdleFrame
    /\ failures' = failures + 1

\* an exception leaves the callback: the locals are gone, the caller gets err
Propagate(err) ==
    /\ pc' = "idle"
    /\ exc' = err
    /\ frame' = IdleFrame
    /\ failures' = failures + 1

\* normal return of on_train_batch_end
Return ==
    /\ pc' = "idle"
    /\ frame' = IdleFrame

\* lines 35-46: the gradient statistics, then self.total_steps += 1
OnTrainBatchEnd(epoch, batch_idx, loss, accumulate, params) ==
    /\ pc = "idle"
    /\ LET scan == GradientScan(params)
       IN  frame' = [IdleFrame EXCEPT !.epoch = epoch, !.batch_idx = batch_idx,
                                      !.loss = loss, !.accumulate = accumulate,
                                      !.params = params,
                                      !.gradient_size = GradientSize(scan),
                                      !.max_gradient_size = scan.max_gradient_size,
                                      !.count = scan.count]
    /\ total_steps' = NextTotalSteps(total_steps)
    /\ calls' = calls + 1
    /\ exc' = NoException
    /\ pc' = "log"
    /\ UNCHANGED <<config, outside, inflight, events, failures>>

ReportDictBeforeIncrement(fr) ==
    [batch |-> fr.batch_idx, steps |-> total_steps - 1, epoch |-> fr.epoch,
     gradient_size |-> fr.gradient_size, loss |-> fr.loss * fr.accumulate]

\* lines 50-58: report_dict; pl_module.last_t is left out
ReportDict(fr) ==
    [batch |-> fr.batch_idx, steps |-> total_steps, epoch |-> fr.epoch,
     gradient_size |-> fr.gradient_size, loss |-> fr.loss * fr.accumulate]

\* line 49: self.use_wandb is false
LogSkip ==
    /\ pc = "log"
    /\ ~use_wandb
    /\ pc' = "print"
    /\ UNCHANGED <<config, outside, total_steps, frame, exc, inflight, events,
                   calls, failures>>

WandbLogUnguarded ==
    /\ pc = "log"
    /\ frame' = [frame EXCEPT !.report_dict = ReportDict(frame)]
    /\ events' = Append(events, Event("wandb.log", ToString(ReportDict(frame).steps)))
    /\ pc' = "print"
    /\ UNCHANGED <<config, outside, total_steps, exc, inflight, calls, failures>>

WandbLogRechecksEnviron ==
    /\ pc = "log"
    /\ wandb_module /\ WandbApiKey \in environ
    /\ frame' = [frame EXCEPT !.report_dict = ReportDict(frame)]
    /\ events' = Append(events, Event("wandb.log", ToString(ReportDict(frame).steps)))
    /\ pc' = "print"
    /\ UNCHANGED <<config, outside, total_steps, exc, inflight, calls, failures>>

\* lines 50-59: the report is built and wandb.log(report_dict) returns
WandbLog ==
    /\ pc = "log"
    /\ use_wandb
    /\ frame' = [frame EXCEPT !.report_dict = ReportDict(frame)]
    /\ events' = Append(events, Event("wandb.log", ToString(ReportDict(frame).steps)))
    /\ pc' = "print"
    /\ UNCHANGED <<config, outside, total_steps, exc, inflight, calls, failures>>

\* lines 50-59: building the report or wandb.log raises; nothing catches it
WandbLogRaise(err) ==
    /\ pc = "log"
    /\ use_wandb
    /\ failures < MaxFailures
    /\ events' = Append(events, Event("wandb.log raised", err))
    /\ Propagate(err)
    /\ UNCHANGED <<config, outside, total_steps, inflight, calls>>

\* lines 61-64: the progress line
ProgressLine ==
    /\ pc = "print"
    /\ events' = IF PrintDue(total_steps)
                 THEN Append(events, Event("progress", ""))
                 ELSE events
    /\ pc' = "save"
    /\ UNCHANGED <<config, outside, total_steps, frame, exc, inflight, calls,
                   failures>>

SaveLoraCall == [op |-> "save_lora", step |-> total_steps]

SaveLoraNotAwaited ==
    /\ pc = "save"
    /\ IF SaveDue(total_steps)
       THEN /\ events' = events \o <<Event("saving", ""),
                                     Event("save_lora", CkptPath(total_steps))>>
            /\ inflight' = inflight \cup {SaveLoraCall}
       ELSE UNCHANGED <<events, inflight>>
    /\ pc' = "sample"
    /\ UNCHANGED <<config, outside, total_steps, frame, exc, calls, failures>>

\* lines 67-73: the checkpoint line, then pl_module.save_lora(path) is entered
SaveLora ==
    /\ pc = "save"
    /\ IF SaveDue(total_steps)
       THEN /\ events' = events \o <<Event("saving", ""),
                                     Event("save_lora", CkptPath(total_steps))>>
            /\ inflight' = inflight \cup {SaveLoraCall}
            /\ pc' = "save_lora"
       ELSE /\ pc' = "sample"
            /\ UNCHANGED <<events, inflight>>
    /\ UNCHANGED <<config, outside, total_steps, frame, exc, calls, failures>>

\* pl_module.save_lora returns
SaveLoraReturn ==
    /\ pc = "save_lora"
    /\ inflight' = inflight \ {SaveLoraCall}
    /\ events' = Append(events, Event("save_lora returned", ""))
    /\ pc' = "sample"
    /\ UNCHANGED <<config, outside, total_steps, frame, exc, calls, failures>>

SaveLoraRaiseSwallowed(err) ==
    /\ pc = "save_lora"
    /\ failures < MaxFailures
    /\ inflight' = inflight \ {SaveLoraCall}
    /\ events' = Append(events, Event("save_lora raised", err))
    /\ failures' = failures + 1
    /\ pc' = "sample"
    /\ UNCHANGED <<config, outside, total_steps, frame, exc, calls>>

\* pl_module.save_lora raises
SaveLoraRaise(err) ==
    /\ pc = "save_lora"
    /\ failures < MaxFailures
    /\ inflight' = inflight \ {SaveLoraCall}
    /\ events' = Append(events, Event("save_lora raised", err))
    /\ Propagate(err)
    /\ UNCHANGED <<config, outside, total_steps, calls>>

SampleRebindsSavePath ==
    /\ pc = "sample"
    /\ IF SampleDue(total_steps)
       THEN /\ events' = Append(events, Event("sampling", ""))
            /\ frame' = [frame EXCEPT !.save_dir = OutputDir,
                                      !.file_name = FileName(total_steps)]
            /\ save_path' = OutputDir
            /\ pc' = "generate_a_sample"
       ELSE /\ Return
            /\ UNCHANGED <<events, save_path>>
    /\ UNCHANGED <<run_name, training_config, print_every_n_steps, save_interval,
                   sample_interval, wandb_config, use_wandb, outside, total_steps,
                   exc, inflight, calls, failures>>

\* lines 76-85: the sample line and the call of generate_a_sample, or the return
Sample ==
    /\ pc = "sample"
    /\ IF SampleDue(total_steps)
       THEN /\ events' = Append(events, Event("sampling", ""))
            /\ frame' = [frame EXCEPT !.save_dir = OutputDir,
                                      !.file_name = FileName(total_steps)]
            /\ pc' = "generate_a_sample"
       ELSE /\ Return
            /\ UNCHANGED events
    /\ UNCHANGED <<config, outside, total_steps, exc, inflight, calls, failures>>

-----------------------------------------------------------------------------
(* generate_a_sample *)

GenerateCall == [op |-> "generate", step |-> total_steps]

TestListTwice ==
    << <<"condition_img", "context_img", "The prompt for the task">>,
       <<"condition_img", "context_img", "The prompt for the task">> >>

\* lines 99-109: test_list after its one append
TestList == << <<"condition_img", "context_img", "The prompt for the task">> >>

\* lines 113-128: the loop head; generate(...) is entered for test_list[i]
EnterGenerate(fr, done) ==
    IF fr.i < Len(fr.test_list)
    THEN /\ events' = Append(done, Event("generate", ToString(fr.seed)))
         /\ inflight' = inflight \cup {GenerateCall}
         /\ pc' = "generate"
         /\ frame' = fr
    ELSE /\ events' = done
         /\ inflight' = inflight \ {GenerateCall}
         /\ Return

PrepareSampleSharedGenerator ==
    /\ pc = "generate_a_sample"
    /\ dirs' = dirs \cup {frame.save_dir}
    /\ EnterGenerate([frame EXCEPT !.seed = ManualSeed + Cardinality(files),
                                   !.test_list = TestList, !.i = 0],
                     IF frame.save_dir \in dirs THEN events
                     ELSE Append(events, Event("makedirs", frame.save_dir)))
    /\ UNCHANGED <<config, wandb_module, environ, files, total_steps, exc,
                   calls, failures>>

PrepareSampleAlwaysMakedirs ==
    /\ pc = "generate_a_sample"
    /\ dirs' = dirs \cup {frame.save_dir}
    /\ EnterGenerate([frame EXCEPT !.seed = ManualSeed, !.test_list = TestList, !.i = 0],
                     Append(events, Event("makedirs", frame.save_dir)))
    /\ UNCHANGED <<config, wandb_module, environ, files, total_steps, exc,
                   calls, failures>>

\* lines 96-128: the seeded generator, the two images, the one-entry test_list,
\* os.makedirs(save_path) if it does not exist, and the first turn of the loop
PrepareSample ==
    /\ pc = "generate_a_sample"
    /\ dirs' = dirs \cup {frame.save_dir}
    /\ EnterGenerate([frame EXCEPT !.seed = ManualSeed, !.test_list = TestList, !.i = 0],
                     IF frame.save_dir \in dirs THEN events
                     ELSE Append(events, Event("makedirs", frame.save_dir)))
    /\ UNCHANGED <<config, wandb_module, environ, files, total_steps, exc,
                   calls, failures>>

\* lines 101-108: Image.open raises (the paths are placeholders)
ImageOpenRaise(err) ==
    /\ pc = "generate_a_sample"
    /\ failures < MaxFailures
    /\ events' = Append(events, Event("Image.open raised", err))
    /\ Propagate(err)
    /\ UNCHANGED <<config, outside, total_steps, inflight, calls>>

\* lines 118-131: generate returns, res.images[0] is saved, the loop goes on
GenerateReturn ==
    /\ pc = "generate"
    /\ LET path == ImagePath(frame.save_dir, frame.file_name, frame.i)
       IN  /\ files' = files \cup {path}
           /\ EnterGenerate([frame EXCEPT !.i = frame.i + 1],
                            Append(events, Event("image.save", path)))
    /\ UNCHANGED <<config, wandb_module, environ, dirs, total_steps, exc, calls,
                   failures>>

\* generate raises
GenerateRaise(err) ==
    /\ pc = "generate"
    /\ failures < MaxFailures
    /\ inflight' = inflight \ {GenerateCall}
    /\ events' = Append(events, Event("generate raised", err))
    /\ Propagate(err)
    /\ UNCHANGED <<config, outside, total_steps, calls>>

-----------------------------------------------------------------------------
(* The loop driver and the specifications *)

\* the training loop finishes a step and calls the callback
Step ==
    /\ calls < MaxSteps
    /\ \E epoch \in Epochs, batch_idx \in BatchIdxs, loss \in Losses,
          accumulate \in AccumulateGradBatches, params \in CadenceParamLists :
          OnTrainBatchEnd(epoch, batch_idx, loss, accumulate, params)

Next ==
    \/ Step
    \/ LogSkip
    \/ WandbLog
    \/ \E err \in Errors : WandbLogRaise(err)
    \/ ProgressLine
    \/ SaveLora
    \/ SaveLoraReturn
    \/ \E err \in Errors : SaveLoraRaise(err)
    \/ Sample
    \/ PrepareSample
    \/ \E err \in Errors : ImageOpenRaise(err)
    \/ GenerateReturn
    \/ \E err \in Errors : GenerateRaise(err)

Spec == Init /\ [][Next]_vars

(* Runs in which the process environment changes after the construction *)

\* between two steps WANDB_API_KEY is set or removed in os.environ
ChangeEnviron ==
    /\ pc = "idle"
    /\ environ' = IF WandbApiKey \in environ THEN environ \ {WandbApiKey}
                  ELSE environ \cup {WandbApiKey}
    /\ UNCHANGED <<config, total_steps, wandb_module, pc, frame, exc, inflight,
                   dirs, files, events, calls, failures>>

EnvironNext ==
    \/ Next
    \/ ChangeEnviron

EnvironSpec == Init /\ [][EnvironNext]_vars

(* Single steps over every parameter list: the gradient statistics *)

GradientStep ==
    /\ calls < MaxGradientSteps
    /\ \E epoch \in Epochs, batch_idx \in BatchIdxs, loss \in Losses,
          accumulate \in AccumulateGradBatches, params \in ParamLists :
          OnTrainBatchEnd(epoch, batch_idx, loss, accumulate, params)

GradientNext ==
    \/ GradientStep
    \/ LogSkip
    \/ WandbLog
    \/ ProgressLine
    \/ SaveLora
    \/ SaveLoraReturn
    \/ Sample
    \/ PrepareSample
    \/ GenerateReturn

GradientSpec == Init /\ [][GradientNext]_vars

(* The long runs of the cadence scenarios: every collaborator call succeeds, *)
(* one parameter carries a gradient of norm 2 on every step.                 *)

ScenarioConfigs ==
    { [print_every_n_steps |-> 10, save_interval |-> 1000, sample_interval |-> 1000],
      [save_interval |-> 500, sample_interval |-> 1000],
      [print_every_n_steps |-> 7, save_interval |-> 3, sample_interval |-> 4] }

ScenarioInit ==
    /\ \E name \in RunNames, cfg \in ScenarioConfigs,
          w \in {<<TRUE, {WandbApiKey}>>, <<TRUE, {}>>} :
          Construct(name, cfg, w)
    /\ pc = "idle"
    /\ frame = IdleFrame
    /\ exc = NoException
    /\ inflight = {}
    /\ dirs = {}
    /\ files = {}
    /\ events = <<>>
    /\ calls = 0
    /\ failures = 0

ScenarioStep ==
    /\ calls < ScenarioSteps
    /\ \E epoch \in Epochs, batch_idx \in BatchIdxs :
          OnTrainBatchEnd(epoch, batch_idx, 2, 1, << <<2>> >>)

ScenarioNext ==
    \/ ScenarioStep
    \/ LogSkip
    \/ WandbLog
    \/ ProgressLine
    \/ SaveLora
    \/ SaveLoraReturn
    \/ Sample
    \/ PrepareSample
    \/ GenerateReturn

ScenarioSpec == ScenarioInit /\ [][ScenarioNext]_vars

-----------------------------------------------------------------------------
(* Reading the record of a run *)

Positions == DOMAIN events

\* how often op happened in the call that counted step S
CountAt(op, S) ==
    Cardinality({i \in Positions : events[i].op = op /\ events[i].step = S})

Fired(op, S) == CountAt(op, S) > 0

\* the call that counted step S is over
Ended(S) == S < total_steps \/ pc = "idle"

\* the failures the callback is meant to pass on: checkpoint and sample
FatalOps == {"save_lora raised", "Image.open raised", "generate raised"}

FatalAt(S) == \E i \in Positions : events[i].step = S /\ events[i].op \in FatalOps

RaisedAt(S) ==
    \E i \in Positions :
        events[i].step = S /\ events[i].op \in FatalOps \cup {"wandb.log raised"}

\* the three cadence actions of step S in the order they happened
CadenceOps == {"progress", "save_lora", "sampling"}

CadenceAt(S) ==
    LET at == SelectSeq(events, LAMBDA e : e.step = S /\ e.op \in CadenceOps)
    IN  [i \in DOMAIN at |-> at[i].op]

\* the cadence actions due on step S, in the order print, checkpoint, sample
DueAt(S) ==
    (IF S % print_every_n_steps = 0 THEN <<"progress">> ELSE <<>>)
    \o (IF S % save_interval = 0 THEN <<"save_lora">> ELSE <<>>)
    \o (IF S % sample_interval = 0 THEN <<"sampling">> ELSE <<>>)

LastEvent == events[Len(events)]

-----------------------------------------------------------------------------
(* Claims *)

\* C1: total_steps is 0 after construction and equals the number of calls of
\* on_train_batch_end made so far: every call adds exactly 1, whatever epoch
\* and batch index it is given, and nothing resets or decrements the counter.
C1_StepCounterCountsCalls ==
    /\ total_steps = calls
    /\ calls = 0 => events = <<>>

\* three calls have returned normally
C1_Witness ==
    /\ pc = "idle"
    /\ calls = 3
    /\ failures = 0
    /\ exc = NoException

\* C2: for every finished step S the progress line is produced iff
\* S mod print_every_n_steps = 0, the checkpoint is requested iff
\* S mod save_interval = 0 and the sample is requested iff
\* S mod sample_interval = 0 (a step ended by a checkpoint or sample failure,
\* which the callback is meant to pass on, is left aside).
C2_CadenceIffDue ==
    \A S \in 1..total_steps :
        (Ended(S) /\ ~FatalAt(S)) =>
            /\ Fired("progress", S) <=> (S % print_every_n_steps = 0)
            /\ Fired("save_lora", S) <=> (S % save_interval = 0)
            /\ Fired("sampling", S) <=> (S % sample_interval = 0)

\* C3: when more than one cadence is due on a step, all of them fire in that
\* call, in the order progress line, checkpoint, sample (a step ended by a
\* checkpoint or sample failure is left aside).
C3_AllDueFireInOrder ==
    \A S \in 1..total_steps :
        (Ended(S) /\ ~FatalAt(S) /\ Len(DueAt(S)) > 1) => CadenceAt(S) = DueAt(S)

\* C4: when wandb.log raises on a step, the call does not end there: no
\* exception reaches the caller and the call goes on to the cadence checks.
C4_LogFailureDoesNotAbort ==
    (events # <<>> /\ LastEvent.op = "wandb.log raised" /\ LastEvent.step = total_steps)
        => (pc = "print" /\ exc = NoException)

\* C5: when save_lora or generate raises on a step, the call ends there with
\* that very exception delivered to the caller, and the collaborator was
\* invoked exactly once in that call.
C5_CollaboratorFailurePropagates ==
    \A i \in Positions :
        events[i].op \in {"save_lora raised", "generate raised"} =>
            LET S    == events[i].step
                call == IF events[i].op = "save_lora raised" THEN "save_lora"
                        ELSE "generate"
            IN  /\ CountAt(call, S) = 1
                /\ \A j \in Positions : j > i => events[j].step > S
                /\ S = total_steps => (pc = "idle" /\ exc = events[i].arg)

\* save_lora has just raised OSError and the caller holds it
C5_Witness ==
    /\ events # <<>>
    /\ LastEvent.op = "save_lora raised"
    /\ LastEvent.arg = "OSError"
    /\ LastEvent.step = total_steps
    /\ pc = "idle"
    /\ exc = "OSError"

C7_CollaboratorCallsAreSynchronous ==
    /\ Cardinality(inflight) <= 1
    /\ \A c \in inflight : c.step = total_steps /\ c.op = pc
    /\ \A S \in 1..total_steps :
          Ended(S) =>
              /\ CountAt("save_lora", S) =
                    CountAt("save_lora returned", S) + CountAt("save_lora raised", S)
              /\ CountAt("generate", S) =
                    CountAt("image.save", S) + CountAt("generate raised", S)

\* the third call begins after the checkpoint and the sample of the second
C7_Witness ==
    /\ calls = 3
    /\ pc = "log"
    /\ Fired("save_lora returned", 2)
    /\ Fired("image.save", 2)
    /\ inflight = {}

\* C8: the path given to save_lora on step S is {save_path}/{run_name}/ckpt/{S}
\* with the save_path and run_name of the construction.
C8_CheckpointPath ==
    \A i \in Positions :
        events[i].op = "save_lora" =>
            events[i].arg =
                Get(training_config, "save_path", DefaultSavePath) \o "/"
                    \o run_name \o "/ckpt/" \o ToString(events[i].step)

\* the checkpoint of step 3 of the run saved under /data/out
C8_Witness ==
    \E i \in Positions :
        /\ events[i].op = "save_lora"
        /\ events[i].step = 3
        /\ events[i].arg = "/data/out/exp/ckpt/3"

\* the image file of the sample of step S
SampleImage(S) ==
    Get(training_config, "save_path", DefaultSavePath) \o "/" \o run_name
        \o "/output/lora_" \o ToString(S) \o "_0.jpg"

\* C9: a sample request on step S calls generate once and writes one image,
\* index 0, to {save_path}/{run_name}/output/lora_{S}_0.jpg; a request that
\* fails calls generate at most once and writes nothing else.
C9_OneSamplePerRequest ==
    /\ \A S \in 1..total_steps :
          /\ CountAt("generate", S) <= 1
          /\ CountAt("image.save", S) <= 1
          /\ (Fired("sampling", S) /\ Ended(S) /\ ~RaisedAt(S)) =>
                /\ CountAt("generate", S) = 1
                /\ CountAt("image.save", S) = 1
                /\ SampleImage(S) \in files
    /\ \A i \in Positions :
          events[i].op = "image.save" => events[i].arg = SampleImage(events[i].step)
    /\ files = {SampleImage(events[i].step) : i \in {j \in Positions : events[j].op = "image.save"}}

\* the sample of step 2 was written under the default save path
C9_Witness ==
    /\ pc = "idle"
    /\ total_steps = 2
    /\ CountAt("generate", 2) = 1
    /\ files = {"./output/exp/output/lora_2_0.jpg"}

StepsOf(op) == {events[i].step : i \in {j \in Positions : events[j].op = op}}

CountOf(op) == Cardinality({i \in Positions : events[i].op = op})

Multiples(I, N) == {S \in 1..N : S % I = 0}

\* C10: after N successful steps an action of interval I has fired N div I
\* times, at the steps I, 2I, ... and never before step I; with intervals
\* 10/1000/1000 and 1000 steps that is 100 progress lines and one checkpoint
\* and one sample at step 1000, and with save interval 500 the checkpoints of
\* steps 500 and 1000 and the one sample of step 1000.
C10_FiresOncePerInterval ==
    (pc = "idle" /\ failures = 0) =>
        /\ StepsOf("progress") = Multiples(print_every_n_steps, total_steps)
        /\ CountOf("progress") = total_steps \div print_every_n_steps
        /\ StepsOf("save_lora") = Multiples(save_interval, total_steps)
        /\ CountOf("save_lora") = total_steps \div save_interval
        /\ StepsOf("sampling") = Multiples(sample_interval, total_steps)
        /\ CountOf("sampling") = total_steps \div sample_interval
        /\ (total_steps = 1000 /\ print_every_n_steps = 10 /\ save_interval = 1000
                /\ sample_interval = 1000) =>
              /\ CountOf("progress") = 100
              /\ CountOf("save_lora") = 1 /\ StepsOf("save_lora") = {1000}
              /\ CountOf("sampling") = 1 /\ StepsOf("sampling") = {1000}
        /\ (total_steps = 1000 /\ save_interval = 500 /\ sample_interval = 1000) =>
              /\ StepsOf("save_lora") = {500, 1000}
              /\ StepsOf("sampling") = {1000}

\* 1000 steps done with the checkpoint due every 500
C10_Witness ==
    /\ pc = "idle"
    /\ total_steps = 1000
    /\ save_interval = 500
    /\ CountOf("save_lora") = 2
    /\ CountOf("progress") = 100

\* the parameters of the running call that carry a gradient
WithGrad == {i \in DOMAIN frame.params : frame.params[i] # <<>>}

RECURSIVE SumOfNorms(_)
SumOfNorms(I) ==
    IF I = {} THEN 0
    ELSE LET i == CHOOSE x \in I : TRUE
         IN  frame.params[i][1] + SumOfNorms(I \ {i})

LargestNorm ==
    CHOOSE m \in {frame.params[i][1] : i \in WithGrad} :
        \A i \in WithGrad : frame.params[i][1] <= m

\* C11: when k >= 1 of the parameters carry a gradient, the summary of the step
\* has gradient_size * k = the sum of their norms, max_gradient_size = their
\* largest norm and count = k; parameters without a gradient add nothing.
C11_GradientSummary ==
    (pc # "idle" /\ WithGrad # {}) =>
        LET k == Cardinality(WithGrad)
        IN  /\ frame.count = k
            /\ frame.max_gradient_size = LargestNorm
            /\ frame.gradient_size.den > 0
            /\ frame.gradient_size.num * k = SumOfNorms(WithGrad) * frame.gradient_size.den

\* norms 1 and 3 and a parameter without gradient: mean 2, max 3, count 2
C11_Witness ==
    /\ pc = "print"
    /\ frame.params = << <<1>>, <<>>, <<3>> >>
    /\ frame.gradient_size = [num |-> 2, den |-> 1]
    /\ frame.max_gradient_size = 3
    /\ frame.count = 2

\* the positions of the callback from a given one on
From(p) ==
    CASE p = "print" -> {"print", "save", "save_lora", "sample", "generate_a_sample", "generate"}
      [] p = "save" -> {"save", "save_lora", "sample", "generate_a_sample", "generate"}
      [] p = "sample" -> {"sample", "generate_a_sample", "generate"}
      [] p = "generate_a_sample" -> {"generate_a_sample", "generate"}

\* C12: with no parameter, or none carrying a gradient, the call does not
\* fail: the summary is 0, 0, 0 with no division by zero, the counter is
\* incremented and the three cadences are tested as on any step.
C12_NoGradientIsNoError ==
    (pc # "idle" /\ WithGrad = {}) =>
        /\ frame.gradient_size = [num |-> 0, den |-> 1]
        /\ frame.max_gradient_size = 0
        /\ frame.count = 0
        /\ exc = NoException
        /\ total_steps = calls
        /\ pc \in From("save") => (Fired("progress", total_steps) <=> PrintDue(total_steps))
        /\ pc \in From("sample") => (Fired("save_lora", total_steps) <=> SaveDue(total_steps))
        /\ pc \in From("generate_a_sample") =>
              (Fired("sampling", total_steps) /\ SampleDue(total_steps))

\* a step whose two parameters carry no gradient has printed, saved and is sampling
C12_Witness ==
    /\ pc = "generate"
    /\ frame.params = << <<>>, <<>> >>
    /\ frame.count = 0
    /\ CadenceAt(total_steps) = <<"progress", "save_lora", "sampling">>

\* C13: use_wandb is (wandb imported and WANDB_API_KEY in os.environ) as they
\* are at construction and never changes afterwards; whether a call logs is
\* decided by use_wandb alone, whatever os.environ has become since.
C13_LoggingResolvedOnce ==
    /\ use_wandb = (wandb_module /\ WandbApiKey \in environ)
    /\ [][/\ use_wandb' = use_wandb
          /\ pc = "log" => (use_wandb <=> Len(events') = Len(events) + 1)]_vars

\* a record is logged after the key was removed from the environment
C13_Witness ==
    /\ use_wandb
    /\ WandbApiKey \notin environ
    /\ pc = "print"
    /\ LastEvent.op = "wandb.log"
    /\ LastEvent.step = total_steps

\* C14: no step of the callback changes run_name, training_config, the three
\* intervals, save_path, wandb_config or use_wandb, nor the parameters it was
\* given; the progress line changes nothing at all but the output.
C14_OnlyTheCounterChanges ==
    [][/\ UNCHANGED config
       /\ (pc # "idle" /\ pc' # "idle") => frame'.params = frame.params
       /\ pc = "print" => UNCHANGED <<config, total_steps, outside, frame, exc,
                                      inflight, calls, failures>>]_vars

\* three steps done, progress lines printed, samples written
C14_Witness ==
    /\ pc = "idle"
    /\ total_steps = 3
    /\ Fired("progress", 3)
    /\ files # {}
    /\ save_path = Get(training_config, "save_path", DefaultSavePath)

\* the keys __init__ reads from training_config
RecognizedKeys ==
    {"print_every_n_steps", "save_interval", "sample_interval", "save_path", "wandb"}

\* training_config without the keys __init__ does not read
Recognized ==
    [k \in DOMAIN training_config \cap RecognizedKeys |-> training_config[k]]

\* the value of a recognized key, or the documented default
Configured(key, default) ==
    IF key \in DOMAIN Recognized THEN Recognized[key] ELSE default

\* C15: each option is the mapping's value when the key is present and the
\* default (10, 1000, 1000, "./output") when it is missing; keys that are not
\* recognized change nothing.
C15_ConfigurationDefaults ==
    /\ print_every_n_steps = Configured("print_every_n_steps", 10)
    /\ save_interval = Configured("save_interval", 1000)
    /\ sample_interval = Configured("sample_interval", 1000)
    /\ save_path = Configured("save_path", "./output")
    /\ wandb_config = Configured("wandb", "None")

\* a run built from a mapping with an unknown key, one given and one missing option
C15_Witness ==
    /\ "batch_size" \in DOMAIN training_config
    /\ print_every_n_steps = 3
    /\ save_path = "./output"
    /\ pc = "idle"
    /\ StepsOf("progress") = {3}
    /\ total_steps = 4

\* C16: every call of generate gets a generator seeded with 42 in that very
\* sample request, whatever the step and however many requests came before.
C16_FixedSeed ==
    /\ \A i \in Positions : events[i].op = "generate" => events[i].arg = "42"
    /\ pc = "generate" => frame.seed = 42

\* the second sample request of a run is in generate
C16_Witness ==
    /\ pc = "generate"
    /\ CountOf("generate") = 2
    /\ frame.seed = 42

\* the first thing the call that counted step S did
FirstAt(S) ==
    LET at == SelectSeq(events, LAMBDA e : e.step = S)
    IN  IF at = <<>> THEN "none" ELSE at[1].op

\* C17: with use_wandb true every call makes exactly one log emission, on
\* every step; the record's steps field is the counter after the increment of
\* that call, and the emission comes before any progress line, checkpoint or
\* sample of the call (an emission that raises gives no record, see C4).
C17_OneRecordPerStep ==
    use_wandb =>
        /\ \A S \in 1..calls :
              (S < calls \/ pc # "log") =>
                  /\ CountAt("wandb.log", S) + CountAt("wandb.log raised", S) = 1
                  /\ FirstAt(S) \in {"wandb.log", "wandb.log raised"}
        /\ \A i \in Positions :
              events[i].op = "wandb.log" => events[i].arg = ToString(events[i].step)
        /\ frame.report_dict # <<>> => frame.report_dict.steps = calls

\* two records logged on steps that print nothing
C17_Witness ==
    /\ use_wandb
    /\ print_every_n_steps = 10
    /\ pc = "idle"
    /\ StepsOf("wandb.log") = {1, 2}
    /\ CountOf("wandb.log") = 2
    /\ CountOf("progress") = 0

\* C18: the output directory is created by the first sample request that finds
\* it absent; a later request finds it, does not create it again and goes on
\* to generate.
C18_OutputDirCreatedOnce ==
    /\ CountOf("makedirs") <= 1
    /\ dirs \subseteq {OutputDir}
    /\ CountOf("makedirs") = Cardinality(dirs)
    /\ pc = "generate" => frame.save_dir \in dirs
    /\ \A i \in Positions :
          events[i].op = "generate" =>
              \E j \in 1..i : events[j].op = "makedirs" /\ events[j].arg = OutputDir

\* the second sample request has passed the directory test
C18_Witness ==
    /\ CountOf("generate") = 2
    /\ CountOf("makedirs") = 1
    /\ dirs = {OutputDir}

\* C19: no two checkpoint requests of a run have the same path and no two
\* samples the same file name, also over several epochs with repeating batch
\* indices.
C19_PathsAreUnique ==
    \A i, j \in Positions :
        (i # j /\ events[i].op = events[j].op
             /\ events[i].op \in {"save_lora", "image.save"})
            => events[i].arg # events[j].arg

\* the second checkpoint of a run, requested for batch 0 of epoch 1
C19_Witness ==
    /\ pc = "save_lora"
    /\ frame.epoch = 1
    /\ frame.batch_idx = 0
    /\ CountOf("save_lora") = 2
    /\ CountOf("image.save") >= 1

AllRaiseOps == FatalOps \cup {"wandb.log raised"}

\* C20: a call that ends in a failure of the log emission, the checkpoint or
\* the sample has still counted its step, exactly once; what it had left to do
\* is not done, neither then nor later, since the next call works on S + 1.
C20_FailedCallStillCounts ==
    /\ total_steps = calls
    /\ \A i \in Positions :
          events[i].op \in AllRaiseOps =>
              /\ events[i].step \in 1..calls
              /\ \A j \in Positions : j > i => events[j].step > events[i].step
              /\ events[i].step = total_steps => pc = "idle"

\* the checkpoint of step 2 failed, the sample due on step 2 was never made,
\* and step 3 has been worked on since
C20_Witness ==
    /\ pc = "idle"
    /\ total_steps = 3
    /\ Fired("save_lora raised", 2)
    /\ SampleDue(2)
    /\ ~Fired("sampling", 2)
    /\ Fired("progress", 3)

====
